---- MODULE Spec2Model ----
(***************************************************************************)
(* Model of automation/sync_youtube_free.py: one run of main(), the pure   *)
(* classifier classify_video, and the finalize step (merge, sort, write).  *)
(*                                                                         *)
(* Time is counted in minutes.  An ISO timestamp string is an integer:     *)
(* EMPTY is the empty string, BAD is a non-empty string that               *)
(* datetime.fromisoformat rejects, any positive number is the instant it   *)
(* denotes.  A formatted "YYYY-MM-DD HH:MM" Eastern-time string is the     *)
(* minute count of that wall-clock time (string order = numeric order),    *)
(* and 0 is the empty string.                                              *)
(***************************************************************************)
EXTENDS Integers, Sequences, FiniteSets, TLC

VARIABLES
    pc,                     \* position in main() / in the function under check
    sheet,                  \* load_channels_from_sheet: the CSV of the channel sheet
    fetch,                  \* fetch_uploads_video_ids: its frame and the playlist
    env,                    \* module-level configuration read from the environment
    item, cls,              \* classify_video: its argument and its return value
    schedule_events,        \* main: schedule_events
    used_schedule_sheet,    \* main: used_schedule_sheet
    channels,               \* main: channels (load_channels_from_sheet())
    events,                 \* main: events
    now,                    \* main: now = now_utc()
    tIdx,                   \* main: position of the TikTok loop
    meta,                   \* main: meta (fetch_channels_meta)
    per_channel_candidate,  \* main: per_channel_candidate
    all_candidate_vids,     \* main: all_candidate_vids
    gIdx,                   \* main: position of the gather loop over channel_ids
    details,                \* main: details (fetch_videos_details)
    cIdx,                   \* main: position of the classify loop over channel_ids
    vIdx,                   \* main: position of the scan loop over a channel's vids
    best_live, best_upcoming, recent_ended,
    out_file,               \* content of OUT_PATH
    writes,                 \* number of write_schedule calls of this run
    exit                    \* how the process ended: status "" (running), "ok" or
                            \* "exception", the step the exception was raised in
                            \* and its class ("HTTPError" or any other "Exception")

vars == <<pc, sheet, fetch, env, item, cls, schedule_events, used_schedule_sheet, channels,
          events, now, tIdx, meta, per_channel_candidate, all_candidate_vids,
          gIdx, details, cIdx, vIdx, best_live, best_upcoming, recent_ended,
          out_file, writes, exit>>

mainVars == <<schedule_events, used_schedule_sheet, channels, events, tIdx,
              meta, per_channel_candidate, all_candidate_vids, gIdx, details,
              cIdx, vIdx, best_live, best_upcoming, recent_ended, out_file,
              writes, exit>>

(***************************************************************************)
(* Program constants                                                       *)
(***************************************************************************)
UPCOMING_HORIZON_DAYS == 7
RECENT_ENDED_HOURS == 36
MAX_LIVE_HOURS == 4
GRACE_MINUTES == 30
ET_UTC_OFFSET_MINUTES == 300

EMPTY == 0
BAD == -1
None == -2

\* a reference instant, 30 days after the epoch of the model's clock
T0 == 30 * 24 * 60

(***************************************************************************)
(* Time helpers                                                            *)
(***************************************************************************)
\* python's `a or b` on two strings
Or(a, b) == IF a # EMPTY THEN a ELSE b

parse_iso(iso) == IF iso = EMPTY \/ iso = BAD THEN None ELSE iso

\* datetime.fromisoformat raises ValueError on "" and on a malformed string
iso_to_et_fmt_raises(iso) == iso = EMPTY \/ iso = BAD

iso_to_et_fmt(iso) == iso - ET_UTC_OFFSET_MINUTES

now_et_fmt(t) == t - ET_UTC_OFFSET_MINUTES

within_upcoming_horizon(iso, t, horizon_days) ==
    IF parse_iso(iso) = None THEN FALSE
    ELSE parse_iso(iso) <= t + horizon_days * 24 * 60

within_recent_window(iso, t, hours) ==
    IF parse_iso(iso) = None THEN FALSE
    ELSE parse_iso(iso) >= t - hours * 60

is_stale_live(start_iso, t, max_hours) ==
    IF parse_iso(start_iso) = None THEN FALSE
    ELSE parse_iso(start_iso) < t - max_hours * 60

is_stale_upcoming(sched_iso, t) ==
    IF parse_iso(sched_iso) = None THEN FALSE
    ELSE parse_iso(sched_iso) < t - GRACE_MINUTES

(***************************************************************************)
(* classify_video                                                          *)
(***************************************************************************)
Result(status, start_iso, end_iso, is_live_broadcast, is_premiere) ==
    [status |-> status, start_iso |-> start_iso, end_iso |-> end_iso,
     is_live_broadcast |-> is_live_broadcast, is_premiere |-> is_premiere]

\* lines 602-608: the premiere flag counts only for an uploaded, public or
\* unlisted video that has a duration
premiere_of(it) ==
    IF it.uploadStatus = "uploaded"
       /\ it.privacyStatus \in {"public", "unlisted"}
       /\ it.duration
    THEN it.premiere
    ELSE FALSE

\* faulty variant: the scheduled-start test is made before the actual-start test
classify_video_sched_first(it, t) ==
    LET actual_start == it.actualStartTime
        actual_end == it.actualEndTime
        sched_start == it.scheduledStartTime
        sched_end == it.scheduledEndTime
        is_premiere == premiere_of(it)
    IN  IF sched_start # EMPTY /\ parse_iso(sched_start) # None
           /\ parse_iso(sched_start) > t
        THEN Result("upcoming", sched_start, sched_end, FALSE, is_premiere)
        ELSE IF actual_start # EMPTY /\ actual_end = EMPTY
        THEN Result("live", actual_start, EMPTY, TRUE, is_premiere)
        ELSE IF actual_end # EMPTY
        THEN Result("ended", Or(actual_start, sched_start), actual_end, FALSE, is_premiere)
        ELSE IF it.liveBroadcastContent = "live"
        THEN Result("live", Or(actual_start, sched_start), actual_end, TRUE, is_premiere)
        ELSE IF it.liveBroadcastContent = "upcoming"
        THEN Result("upcoming", sched_start, sched_end, FALSE, is_premiere)
        ELSE Result("none", Or(sched_start, actual_start), actual_end, FALSE, is_premiere)

classify_video(it, t) ==
    LET actual_start == it.actualStartTime
        actual_end == it.actualEndTime
        sched_start == it.scheduledStartTime
        sched_end == it.scheduledEndTime
        is_live_broadcast == it.liveBroadcastContent = "live"
        is_upcoming_broadcast == it.liveBroadcastContent = "upcoming"
        is_premiere == premiere_of(it)
    IN  IF actual_start # EMPTY /\ actual_end = EMPTY
        THEN Result("live", actual_start, EMPTY, TRUE, is_premiere)
        ELSE IF sched_start # EMPTY /\ parse_iso(sched_start) # None
                /\ parse_iso(sched_start) > t
        THEN Result("upcoming", sched_start, sched_end, FALSE, is_premiere)
        ELSE IF actual_end # EMPTY
        THEN Result("ended", Or(actual_start, sched_start), actual_end, FALSE, is_premiere)
        ELSE IF is_live_broadcast
        THEN Result("live", Or(actual_start, sched_start), actual_end, TRUE, is_premiere)
        ELSE IF is_upcoming_broadcast
        THEN Result("upcoming", sched_start, sched_end, FALSE, is_premiere)
        ELSE Result("none", Or(sched_start, actual_start), actual_end, FALSE, is_premiere)

(***************************************************************************)
(* Inputs of the classifier                                                *)
(***************************************************************************)
ActualStarts == {EMPTY, BAD, T0 - MAX_LIVE_HOURS * 60 - 1, T0 - MAX_LIVE_HOURS * 60, T0 - 10}
ActualEnds == {EMPTY, BAD, T0 - RECENT_ENDED_HOURS * 60 - 1, T0 - RECENT_ENDED_HOURS * 60}
SchedStarts == {EMPTY, BAD, T0 - GRACE_MINUTES - 1, T0 - GRACE_MINUTES, T0 - 10, T0, T0 + 1,
                T0 + UPCOMING_HORIZON_DAYS * 24 * 60 + 1}
SchedEnds == {EMPTY, T0 + 120}
Labels == {"", "none", "live", "upcoming"}
Nows == {T0, T0 + 1}

Items ==
    [actualStartTime : ActualStarts, actualEndTime : ActualEnds,
     scheduledStartTime : SchedStarts, scheduledEndTime : SchedEnds,
     liveBroadcastContent : Labels,
     uploadStatus : {"uploaded", "processed"},
     privacyStatus : {"public", "private"},
     duration : BOOLEAN, premiere : BOOLEAN]

NoItem ==
    [actualStartTime |-> EMPTY, actualEndTime |-> EMPTY,
     scheduledStartTime |-> EMPTY, scheduledEndTime |-> EMPTY,
     liveBroadcastContent |-> "", uploadStatus |-> "", privacyStatus |-> "",
     duration |-> FALSE, premiere |-> FALSE]

NoResult == Result("", EMPTY, EMPTY, FALSE, FALSE)

\* no channel sheet read, no uploads playlist being listed
NoSheet == [headers |-> <<>>, rows |-> <<>>]

NoFetch == [playlist |-> <<>>, max_results |-> 0, vids |-> <<>>, page_token |-> 0,
            requests |-> <<>>]

NoEnv == [schedule_sheet_csv |-> FALSE, yt_api_key |-> FALSE, search_live_max_results |-> 0]

\* the state of main() before it starts
MainIdle ==
    /\ schedule_events = <<>>
    /\ used_schedule_sheet = FALSE
    /\ channels = <<>>
    /\ events = <<>>
    /\ tIdx = 1
    /\ meta = <<>>
    /\ per_channel_candidate = <<>>
    /\ all_candidate_vids = <<>>
    /\ gIdx = 1
    /\ details = <<>>
    /\ cIdx = 1
    /\ vIdx = 1
    /\ best_live = <<>>
    /\ best_upcoming = <<>>
    /\ recent_ended = <<>>
    /\ out_file = <<"previous">>
    /\ writes = 0
    /\ exit = [status |-> "", raised_in |-> "", error |-> ""]

(***************************************************************************)
(* The classifier on its own: every item of Items at every instant of Nows *)
(***************************************************************************)
InitClassify ==
    /\ pc = "classify"
    /\ sheet = NoSheet
    /\ fetch = NoFetch
    /\ env = NoEnv
    /\ item \in Items
    /\ now \in Nows
    /\ cls = NoResult
    /\ MainIdle

Classify ==
    /\ pc = "classify"
    /\ cls' = classify_video(item, now)
    /\ pc' = "classified"
    /\ UNCHANGED <<sheet, fetch, env, item, now>>
    /\ UNCHANGED mainVars

SpecClassify == InitClassify /\ [][Classify]_vars

\* C1: an item with a non-empty actualStartTime and an empty actualEndTime is
\* classified 'live' with start = actualStartTime, whatever its scheduled
\* times, its liveBroadcastContent label and the instant 'now'.
C1_LiveWhenStartedNotEnded ==
    (pc = "classified" /\ item.actualStartTime # EMPTY /\ item.actualEndTime = EMPTY)
        => (cls.status = "live" /\ cls.start_iso = item.actualStartTime)

C1_Witness ==
    /\ pc = "classified"
    /\ item.actualStartTime = T0 - 10
    /\ item.actualEndTime = EMPTY
    /\ item.scheduledStartTime = T0 + 1
    /\ now = T0
    /\ item.liveBroadcastContent = "upcoming"
    /\ cls.status = "live"

\* C5: an item with no actual-start and no actual-end whose scheduled-start is
\* in the past by less than the grace period is classified 'upcoming',
\* whatever its liveBroadcastContent label.
C5_UpcomingWithinGrace ==
    (/\ pc = "classified"
     /\ item.actualStartTime = EMPTY
     /\ item.actualEndTime = EMPTY
     /\ parse_iso(item.scheduledStartTime) # None
     /\ item.scheduledStartTime <= now
     /\ item.scheduledStartTime > now - GRACE_MINUTES)
        => cls.status = "upcoming"

StructuredFieldPresent(it) ==
    \/ it.actualStartTime # EMPTY
    \/ it.actualEndTime # EMPTY
    \/ it.scheduledStartTime # EMPTY

\* C15: when at least one of actualStartTime, actualEndTime and
\* scheduledStartTime is present, the status classify_video returns does not
\* depend on the liveBroadcastContent label: the item with any other label
\* gets the same status.
C15_LabelOnlyWhenNoStructuredField ==
    (pc = "classified" /\ StructuredFieldPresent(item))
        => \A label \in Labels :
              classify_video([item EXCEPT !.liveBroadcastContent = label], now).status
                  = cls.status

(***************************************************************************)
(* Finalize: merge by key, sort, write (main, lines 889-919)               *)
(*                                                                         *)
(* An event is a record of the fields the merge and the sort read; title,  *)
(* league, channel, type, is_premiere and thumbnail_url are carried        *)
(* through untouched and are left out.  A missing "source_id" key (a       *)
(* schedule-sheet event) is the empty string: `e.get("source_id") or ...`  *)
(* treats both alike.  Every status that reaches the merge is lower case   *)
(* already (the sheet loader lowers it, main writes literals).             *)
(***************************************************************************)
Event(start_et, end_et, platform, watch_url, source_id, status, subscribers) ==
    [start_et |-> start_et, end_et |-> end_et, platform |-> platform,
     watch_url |-> watch_url, source_id |-> source_id, status |-> status,
     subscribers |-> subscribers]

\* priority = {"live": 3, "upcoming": 2, "ended": 1}; priority.get(status, 0)
priority(status) ==
    CASE status = "live" -> 3
      [] status = "upcoming" -> 2
      [] status = "ended" -> 1
      [] OTHER -> 0

\* key = (e.get("platform"), e.get("source_id") or e.get("watch_url"))
Key(e) == <<e.platform, IF e.source_id # "" THEN e.source_id ELSE e.watch_url>>

\* position of the entry of `merged` stored under key k, 0 when there is none
IndexOfKey(merged, k) ==
    IF \E i \in 1..Len(merged) : Key(merged[i]) = k
    THEN CHOOSE i \in 1..Len(merged) : Key(merged[i]) = k
    ELSE 0

\* faulty variant: the first event of a key is kept, later ones never replace it
merge_step_keep_first(merged, e) ==
    IF IndexOfKey(merged, Key(e)) = 0 THEN Append(merged, e) ELSE merged

\* one iteration of `for e in events` (lines 893-902); `merged` is the dict's
\* values in insertion order: replacing a value keeps the key's position
merge_step(merged, e) ==
    LET i == IndexOfKey(merged, Key(e))
    IN  IF i = 0 THEN Append(merged, e)
        ELSE IF priority(e.status) >= priority(merged[i].status)
        THEN [merged EXCEPT ![i] = e]
        ELSE merged

RECURSIVE MergeFrom(_, _, _)
MergeFrom(merged, evs, n) ==
    IF n > Len(evs) THEN merged
    ELSE MergeFrom(merge_step(merged, evs[n]), evs, n + 1)

\* final_events = list(merged.values())
Merge(evs) == MergeFrom(<<>>, evs, 1)

\* faulty variant: the status rank is left out of the sort key
sort_key_start_only(e) == <<0, e.start_et>>

sort_key(e) ==
    IF e.status = "live" THEN <<0, e.start_et>>
    ELSE IF e.status = "upcoming" THEN <<1, e.start_et>>
    ELSE <<2, e.start_et>>

\* python's order on 2-tuples
TupleLess(a, b) == a[1] < b[1] \/ (a[1] = b[1] /\ a[2] < b[2])

\* list.sort is stable: e goes behind every element whose key is not greater
RECURSIVE InsertSorted(_, _)
InsertSorted(sorted, e) ==
    IF sorted = <<>> THEN <<e>>
    ELSE IF TupleLess(sort_key(e), sort_key(Head(sorted)))
    THEN <<e>> \o sorted
    ELSE <<Head(sorted)>> \o InsertSorted(Tail(sorted), e)

RECURSIVE SortFrom(_, _, _)
SortFrom(sorted, evs, n) ==
    IF n > Len(evs) THEN sorted
    ELSE SortFrom(InsertSorted(sorted, evs[n]), evs, n + 1)

\* final_events.sort(key=sort_key)
Sort(evs) == SortFrom(<<>>, evs, 1)

\* faulty variant: the file is opened for appending, the new list follows the
\* previous content
Finalize_append ==
    /\ pc = "finalize"
    /\ out_file' = out_file \o Sort(Merge(events))
    /\ writes' = writes + 1
    /\ pc' = "done"
    /\ exit' = [status |-> "ok", raised_in |-> "", error |-> ""]
    /\ UNCHANGED <<sheet, fetch, env, item, cls, now, schedule_events, used_schedule_sheet,
                   channels, events, tIdx, meta, per_channel_candidate,
                   all_candidate_vids, gIdx, details, cIdx, vIdx, best_live,
                   best_upcoming, recent_ended>>

\* lines 889-919: merge, sort, write_schedule, normal return
Finalize ==
    /\ pc = "finalize"
    /\ out_file' = Sort(Merge(events))
    /\ writes' = writes + 1
    /\ pc' = "done"
    /\ exit' = [status |-> "ok", raised_in |-> "", error |-> ""]
    /\ UNCHANGED <<sheet, fetch, env, item, cls, now, schedule_events, used_schedule_sheet,
                   channels, events, tIdx, meta, per_channel_candidate,
                   all_candidate_vids, gIdx, details, cIdx, vIdx, best_live,
                   best_upcoming, recent_ended>>

(***************************************************************************)
(* The finalize step on its own, on every list of at most MaxEvents events *)
(***************************************************************************)
MaxEvents == 3

\* (platform, watch_url, source_id, subscribers) of four sources: the first
\* two give the same key, one by its watch_url and one by its source_id
Sources ==
    {<<"YouTube", "a", "", 10>>, <<"YouTube", "b", "a", 10>>,
     <<"YouTube", "b", "", 20>>, <<"TikTok", "a", "", 20>>}

EventPool ==
    {Event(s, 0, src[1], src[2], src[3], st, src[4]) :
        s \in {T0, T0 + 60}, src \in Sources,
        st \in {"live", "upcoming", "ended", "final"}}

InitFinal ==
    /\ pc = "finalize"
    /\ sheet = NoSheet
    /\ fetch = NoFetch
    /\ env = NoEnv
    /\ item = NoItem
    /\ cls = NoResult
    /\ now = T0
    /\ schedule_events = <<>>
    /\ used_schedule_sheet = FALSE
    /\ channels = <<>>
    /\ \E k \in 0..MaxEvents : events \in [1..k -> EventPool]
    /\ tIdx = 1
    /\ meta = <<>>
    /\ per_channel_candidate = <<>>
    /\ all_candidate_vids = <<>>
    /\ gIdx = 1
    /\ details = <<>>
    /\ cIdx = 1
    /\ vIdx = 1
    /\ best_live = <<>>
    /\ best_upcoming = <<>>
    /\ recent_ended = <<>>
    /\ out_file = <<"previous">>
    /\ writes = 0
    /\ exit = [status |-> "", raised_in |-> "", error |-> ""]

SpecFinal == InitFinal /\ [][Finalize]_vars

Range(s) == {s[i] : i \in 1..Len(s)}

MaxPriority(evs, k) ==
    CHOOSE p \in 0..3 :
        /\ \E e \in Range(evs) : Key(e) = k /\ priority(e.status) = p
        /\ \A e \in Range(evs) : Key(e) = k => priority(e.status) <= p

\* C6: after the merge the output holds exactly one event per key
\* (platform, source_id or else watch_url) of the input, that event is one of
\* the input events, and its status has the highest priority
\* (live > upcoming > ended > anything else) among the input events of its key.
C6_OnePerKeyHighestPriority ==
    pc = "done" =>
        /\ \A e \in Range(events) :
              Cardinality({i \in 1..Len(out_file) : Key(out_file[i]) = Key(e)}) = 1
        /\ \A i \in 1..Len(out_file) :
              /\ out_file[i] \in Range(events)
              /\ priority(out_file[i].status) = MaxPriority(events, Key(out_file[i]))

C6_Witness ==
    /\ pc = "done"
    /\ Len(events) = 3
    /\ events[1].status = "upcoming"
    /\ events[2].status = "live"
    /\ events[3].status = "upcoming"
    /\ Key(events[1]) = Key(events[2])
    /\ Key(events[2]) = Key(events[3])
    /\ events[1].source_id # events[2].source_id
    /\ out_file = <<events[2]>>

\* C7: in the written output every 'live' event precedes every 'upcoming'
\* event, which precedes every event of any other status, and the start_et
\* values of the 'upcoming' events are in non-decreasing order.
C7_LiveFirstUpcomingAscending ==
    pc = "done" =>
        \A i, j \in 1..Len(out_file) :
            i < j =>
                /\ out_file[j].status = "live" => out_file[i].status = "live"
                /\ out_file[j].status = "upcoming" =>
                      out_file[i].status \in {"live", "upcoming"}
                /\ (out_file[i].status = "upcoming" /\ out_file[j].status = "upcoming")
                      => out_file[i].start_et <= out_file[j].start_et

C7_Witness ==
    /\ pc = "done"
    /\ Len(events) = 3
    /\ events[1].status = "upcoming" /\ events[1].start_et = T0 + 60
    /\ events[2].status = "live" /\ events[2].start_et = T0 + 60
    /\ events[3].status = "upcoming" /\ events[3].start_et = T0
    /\ out_file = <<events[2], events[3], events[1]>>

\* C8: among output events of the same status and the same start_et, an event
\* with more subscribers never comes after an event with fewer subscribers.
C8_TiesBySubscribersDescending ==
    pc = "done" =>
        \A i, j \in 1..Len(out_file) :
            (/\ i < j
             /\ out_file[i].status = out_file[j].status
             /\ out_file[i].start_et = out_file[j].start_et)
                => out_file[i].subscribers >= out_file[j].subscribers

(***************************************************************************)
(* main: the per-channel classification loop (lines 784-887)               *)
(***************************************************************************)
\* str.lower() on the platform names and the header names a sheet can carry
lower(str) ==
    CASE str = "YouTube" -> "youtube"
      [] str = "TikTok" -> "tiktok"
      [] str = "Twitch" -> "twitch"
      [] str = "Platform" -> "platform"
      [] str = "Channel_ID" -> "channel_id"
      [] str = "Handle" -> "handle"
      [] str = "TikTok_URL" -> "tiktok_url"
      [] str = "Subscribers" -> "subscribers"
      [] OTHER -> str

Channel(platform, channel_id, handle, tiktok_url, sheet_subscribers) ==
    [platform |-> platform, channel_id |-> channel_id, handle |-> handle,
     tiktok_url |-> tiktok_url, sheet_subscribers |-> sheet_subscribers]

IsYouTube(c) == lower(c.platform) = "youtube"
IsTikTok(c) == lower(c.platform) = "tiktok"

youtube_channels == SelectSeq(channels, IsYouTube)
tiktok_channels == SelectSeq(channels, IsTikTok)
channel_ids == [i \in 1..Len(youtube_channels) |-> youtube_channels[i].channel_id]

\* dict.get(key, default)
Get(dict, key, default) == IF key \in DOMAIN dict THEN dict[key] ELSE default

\* f"https://www.youtube.com/watch?v={vid}"
WatchUrl(vid) == "https://www.youtube.com/watch?v=" \o vid

\* the tuples kept in best_live, best_upcoming and recent_ended
Cand(vid, r) == [vid |-> vid, start_iso |-> r.start_iso, end_iso |-> r.end_iso]

\* the except clauses of main (lines 921-926) print and re-raise, for an
\* HTTPError as for any other exception: the process ends with the exception
Abort(error) ==
    /\ pc' = "aborted"
    /\ exit' = [status |-> "exception", raised_in |-> pc, error |-> error]

\* what a call that goes through http_get can raise: urllib's HTTPError (a
\* 4xx/5xx answer, 403 for a quota or key rejection) or something else
\* (URLError, a timeout, a JSON decoding error)
HttpErrors == {"HTTPError", "Exception"}

\* the end of one iteration of `for cid in channel_ids` (classification)
NextChannel ==
    IF cIdx < Len(channel_ids)
    THEN cIdx' = cIdx + 1 /\ pc' = "classify"
    ELSE cIdx' = cIdx /\ pc' = "finalize"

\* lines 785-799: the head of an iteration of the classification loop
BeginChannel ==
    /\ pc = "classify"
    /\ LET cid == channel_ids[cIdx]
           vids == Get(per_channel_candidate, cid, <<>>)
       IN  IF vids = <<>>
           THEN /\ NextChannel
                /\ UNCHANGED <<vIdx, best_live, best_upcoming, recent_ended>>
           ELSE /\ pc' = "scan"
                /\ vIdx' = 1
                /\ best_live' = <<>>
                /\ best_upcoming' = <<>>
                /\ recent_ended' = <<>>
                /\ cIdx' = cIdx
    /\ UNCHANGED <<sheet, fetch, env, item, cls, now, schedule_events, used_schedule_sheet,
                   channels, events, tIdx, meta, per_channel_candidate,
                   all_candidate_vids, gIdx, details, out_file, writes, exit>>

\* what one iteration of `for vid in vids` (lines 801-829) does with a candidate
ScanOutcome(vid) ==
    IF vid \notin DOMAIN details THEN "skip"
    ELSE LET r == classify_video(details[vid], now)
         IN  IF r.is_premiere THEN "skip"
             ELSE IF r.status = "live"
             THEN IF r.start_iso # EMPTY /\ is_stale_live(r.start_iso, now, MAX_LIVE_HOURS)
                  THEN "skip"
                  ELSE "live"
             ELSE IF r.status = "upcoming" /\ r.start_iso # EMPTY
             THEN IF ~within_upcoming_horizon(r.start_iso, now, UPCOMING_HORIZON_DAYS)
                  THEN "skip"
                  ELSE IF is_stale_upcoming(r.start_iso, now) THEN "skip"
                  ELSE "upcoming"
             ELSE IF r.status = "ended" /\ r.end_iso # EMPTY
             THEN IF within_recent_window(r.end_iso, now, RECENT_ENDED_HOURS)
                  THEN "ended"
                  ELSE "skip"
             ELSE "skip"

\* faulty variant: a stale live candidate ends the channel's scan (break for continue)
ScanEnds_break_on_stale(vid, vids) ==
    \/ ScanOutcome(vid) = "live"
    \/ vIdx = Len(vids)
    \/ /\ vid \in DOMAIN details
       /\ classify_video(details[vid], now).status = "live"

\* the scan of the channel ends at the first live candidate kept (break) or
\* behind the last candidate
ScanEnds(vid, vids) == ScanOutcome(vid) = "live" \/ vIdx = Len(vids)

\* lines 801-829: one iteration of the scan of a channel's candidates
ScanStep ==
    /\ pc = "scan"
    /\ LET cid == channel_ids[cIdx]
           vids == per_channel_candidate[cid]
           vid == vids[vIdx]
           what == ScanOutcome(vid)
           c == Cand(vid, classify_video(details[vid], now))
       IN  /\ best_live' = IF what = "live" THEN <<c>> ELSE best_live
           /\ best_upcoming' =
                  IF what = "upcoming" /\ best_upcoming = <<>> THEN <<c>>
                  ELSE best_upcoming
           /\ recent_ended' =
                  IF what = "ended" THEN Append(recent_ended, c) ELSE recent_ended
           /\ IF ScanEnds(vid, vids)
              THEN pc' = "emit" /\ vIdx' = vIdx
              ELSE pc' = "scan" /\ vIdx' = vIdx + 1
    /\ UNCHANGED <<sheet, fetch, env, item, cls, now, schedule_events, used_schedule_sheet,
                   channels, events, tIdx, meta, per_channel_candidate,
                   all_candidate_vids, gIdx, details, cIdx, out_file, writes, exit>>

\* faulty variant: the event carries neither the video id nor its watch url
YouTubeEvent_without_id(start_et, end_et, vid, status, subs) ==
    Event(start_et, end_et, "YouTube", "", "", status, subs)

YouTubeEvent(start_et, end_et, vid, status, subs) ==
    Event(start_et, end_et, "YouTube", WatchUrl(vid), vid, status, subs)

\* iso_to_et_fmt(end_iso) if end_iso else ""
EndEt(end_iso) == IF end_iso # EMPTY THEN iso_to_et_fmt(end_iso) ELSE 0

RECURSIVE EndedEvents(_, _, _)
EndedEvents(ended, n, subs) ==
    IF n > Len(ended) THEN <<>>
    ELSE <<YouTubeEvent(iso_to_et_fmt(Or(ended[n].start_iso, ended[n].end_iso)),
                        EndEt(ended[n].end_iso), ended[n].vid, "ended", subs)>>
         \o EndedEvents(ended, n + 1, subs)

\* lines 831-887: the events of one channel, and whether a timestamp of
\* theirs makes iso_to_et_fmt raise
EmitRaises ==
    IF best_live # <<>>
    THEN iso_to_et_fmt_raises(Or(best_live[1].start_iso, now))
    ELSE \/ /\ best_upcoming # <<>>
            /\ \/ iso_to_et_fmt_raises(best_upcoming[1].start_iso)
               \/ /\ best_upcoming[1].end_iso # EMPTY
                  /\ iso_to_et_fmt_raises(best_upcoming[1].end_iso)
         \/ \E n \in 1..Len(recent_ended) :
               \/ iso_to_et_fmt_raises(Or(recent_ended[n].start_iso, recent_ended[n].end_iso))
               \/ /\ recent_ended[n].end_iso # EMPTY
                  /\ iso_to_et_fmt_raises(recent_ended[n].end_iso)

\* faulty variant: no `continue` behind the live event, the upcoming and the
\* ended events of the channel follow it
Emitted_without_continue(subs) ==
    (IF best_live # <<>>
     THEN <<YouTubeEvent(iso_to_et_fmt(Or(best_live[1].start_iso, now)), 0,
                         best_live[1].vid, "live", subs)>>
     ELSE <<>>)
    \o (IF best_upcoming # <<>>
        THEN <<YouTubeEvent(iso_to_et_fmt(best_upcoming[1].start_iso),
                            EndEt(best_upcoming[1].end_iso),
                            best_upcoming[1].vid, "upcoming", subs)>>
        ELSE <<>>)
    \o EndedEvents(recent_ended, 1, subs)

Emitted(subs) ==
    IF best_live # <<>>
    THEN <<YouTubeEvent(iso_to_et_fmt(Or(best_live[1].start_iso, now)), 0,
                        best_live[1].vid, "live", subs)>>
    ELSE (IF best_upcoming # <<>>
          THEN <<YouTubeEvent(iso_to_et_fmt(best_upcoming[1].start_iso),
                              EndEt(best_upcoming[1].end_iso),
                              best_upcoming[1].vid, "upcoming", subs)>>
          ELSE <<>>)
         \o EndedEvents(recent_ended, 1, subs)

EmitChannel ==
    /\ pc = "emit"
    /\ IF EmitRaises
       THEN Abort("Exception") /\ UNCHANGED <<events, cIdx>>
       ELSE /\ events' = events \o Emitted(Get(meta, channel_ids[cIdx], [subscribers |-> 0]).subscribers)
            /\ NextChannel
            /\ exit' = exit
    /\ UNCHANGED <<sheet, fetch, env, item, cls, now, schedule_events, used_schedule_sheet,
                   channels, tIdx, meta, per_channel_candidate,
                   all_candidate_vids, gIdx, details, vIdx, best_live,
                   best_upcoming, recent_ended, out_file, writes>>

(***************************************************************************)
(* The classification loop on its own: main at line 785, after the         *)
(* collection for one YouTube channel gave at most MaxScan candidates      *)
(***************************************************************************)
MaxScan == 2

ScanVids == <<"v1", "v2", "v3", "v4">>

Stale == T0 - MAX_LIVE_HOURS * 60 - 1
Fresh == T0 - MAX_LIVE_HOURS * 60
Recent == T0 - RECENT_ENDED_HOURS * 60
Old == T0 - RECENT_ENDED_HOURS * 60 - 1
Ghost == T0 - GRACE_MINUTES - 1
Future == T0 + 1

PlainItem(as, ae, ss, label, premiere) ==
    [actualStartTime |-> as, actualEndTime |-> ae, scheduledStartTime |-> ss,
     scheduledEndTime |-> EMPTY, liveBroadcastContent |-> label,
     uploadStatus |-> "uploaded", privacyStatus |-> "public",
     duration |-> TRUE, premiere |-> premiere]

\* the items of the scan: every combination of actual start, actual end,
\* scheduled start and label; an old actual end; a premiere (main skips a
\* premiere before it reads anything else of it)
ScanItems ==
    {PlainItem(as, ae, ss, label, FALSE) :
        as \in {EMPTY, Stale, Fresh}, ae \in {EMPTY, Recent},
        ss \in {EMPTY, Ghost, Future}, label \in {"", "live", "upcoming"}}
    \cup {PlainItem(as, Old, ss, "", FALSE) :
        as \in {EMPTY, Fresh}, ss \in {EMPTY, Future}}
    \cup {PlainItem(as, EMPTY, EMPTY, "live", TRUE) : as \in {Stale, Fresh}}

ScanEnv == [schedule_sheet_csv |-> FALSE, yt_api_key |-> TRUE, search_live_max_results |-> 0]

InitScan ==
    /\ pc = "classify"
    /\ sheet = NoSheet
    /\ fetch = NoFetch
    /\ env = ScanEnv
    /\ item = NoItem
    /\ cls = NoResult
    /\ now = T0
    /\ schedule_events = <<>>
    /\ used_schedule_sheet = FALSE
    /\ channels = <<Channel("YouTube", "c1", "", "", 0)>>
    /\ events = <<>>
    /\ tIdx = 1
    /\ meta = ("c1" :> [subscribers |-> 100])
    /\ \E k \in 1..MaxScan :
          /\ per_channel_candidate = ("c1" :> SubSeq(ScanVids, 1, k))
          /\ all_candidate_vids = SubSeq(ScanVids, 1, k)
          /\ details \in [Range(SubSeq(ScanVids, 1, k)) -> ScanItems]
    /\ gIdx = 2
    /\ cIdx = 1
    /\ vIdx = 1
    /\ best_live = <<>>
    /\ best_upcoming = <<>>
    /\ recent_ended = <<>>
    /\ out_file = <<"previous">>
    /\ writes = 0
    /\ exit = [status |-> "", raised_in |-> "", error |-> ""]

NextScan == BeginChannel \/ ScanStep \/ EmitChannel \/ Finalize

SpecScan == InitScan /\ [][NextScan]_vars

\* an event of the given status exists for the video, in main's list or in
\* the written output
HasEvent(vid, status) ==
    \/ \E i \in 1..Len(events) : events[i].source_id = vid /\ events[i].status = status
    \/ /\ pc = "done"
       /\ \E i \in 1..Len(out_file) : out_file[i].source_id = vid /\ out_file[i].status = status

\* C2: a candidate with both an actual-start and an actual-end gets no event
\* other than 'ended', and an 'ended' event only if its actual-end is no older
\* than RECENT_ENDED_HOURS: it is never emitted as 'upcoming' or 'live'.
C2_EndedOnlyWhenStartedAndEnded ==
    \A vid \in DOMAIN details :
        (details[vid].actualStartTime # EMPTY /\ details[vid].actualEndTime # EMPTY)
            => /\ ~HasEvent(vid, "live")
               /\ ~HasEvent(vid, "upcoming")
               /\ HasEvent(vid, "ended") =>
                     within_recent_window(details[vid].actualEndTime, now, RECENT_ENDED_HOURS)

\* C3: a candidate with no actual-start whose scheduled-start lies more than
\* the grace period before now gets no event of any status.
C3_GhostUpcomingDropped ==
    \A vid \in DOMAIN details :
        (/\ details[vid].actualStartTime = EMPTY
         /\ parse_iso(details[vid].scheduledStartTime) # None
         /\ details[vid].scheduledStartTime < now - GRACE_MINUTES)
            => \A st \in {"live", "upcoming", "ended"} : ~HasEvent(vid, st)

StaleLive(it) ==
    /\ it.actualEndTime = EMPTY
    /\ parse_iso(it.actualStartTime) # None
    /\ it.actualStartTime < now - MAX_LIVE_HOURS * 60

\* C4: a candidate with no actual-end whose actual-start is more than
\* MAX_LIVE_HOURS before now never gets a 'live' event, and dropping it does
\* not end the channel's scan: the scan ends before the channel's last
\* candidate only at a live candidate that is kept.
C4_StaleLiveDroppedScanContinues ==
    /\ \A vid \in DOMAIN details : StaleLive(details[vid]) => ~HasEvent(vid, "live")
    /\ (pc = "emit" /\ best_live = <<>>)
          => vIdx = Len(per_channel_candidate[channel_ids[cIdx]])

C4_Witness ==
    /\ pc = "done"
    /\ DOMAIN details = {"v1", "v2"}
    /\ StaleLive(details["v1"])
    /\ details["v1"].liveBroadcastContent = "live"
    /\ \E i \in 1..Len(out_file) :
          out_file[i].source_id = "v2" /\ out_file[i].status = "live"

\* positions of the channel's candidates that main keeps with the given outcome
Kept(vids, what) == {i \in 1..Len(vids) : ScanOutcome(vids[i]) = what}

First(S) == CHOOSE i \in S : \A j \in S : i <= j

\* number of events of the given status emitted for the video
Count(vid, status) ==
    Cardinality({k \in 1..Len(events) :
                    events[k].source_id = vid /\ events[k].status = status})

\* C19: once the channel is processed, its events are: the one 'live' event
\* of the first live candidate that is neither stale nor a premiere, and
\* nothing else, when there is such a candidate; otherwise one 'upcoming'
\* event for the first qualifying upcoming candidate (none when there is no
\* such candidate) and one 'ended' event for each recently ended candidate.
\* The written output holds the same events.
C19_OneLiveOrUpcomingPerChannel ==
    pc \in {"finalize", "done"} =>
        LET vids == per_channel_candidate[channel_ids[1]]
            lives == Kept(vids, "live")
            ups == Kept(vids, "upcoming")
            ends == Kept(vids, "ended")
        IN  /\ Cardinality({k \in 1..Len(events) :
                               events[k].status \in {"live", "upcoming"}}) <= 1
            /\ \A k \in 1..Len(events) : events[k].source_id \in Range(vids)
            /\ lives # {} =>
                  /\ Len(events) = 1
                  /\ events[1].status = "live"
                  /\ events[1].source_id = vids[First(lives)]
            /\ lives = {} =>
                  \A i \in 1..Len(vids) :
                      /\ Count(vids[i], "live") = 0
                      /\ Count(vids[i], "upcoming") =
                            (IF ups # {} /\ i = First(ups) THEN 1 ELSE 0)
                      /\ Count(vids[i], "ended") = (IF i \in ends THEN 1 ELSE 0)
            /\ pc = "done" =>
                  (Len(out_file) = Len(events) /\ Range(out_file) = Range(events))

C19_Witness ==
    /\ pc = "done"
    /\ Len(per_channel_candidate["c1"]) = 2
    /\ ScanOutcome("v1") = "upcoming"
    /\ ScanOutcome("v2") = "live"
    /\ Len(out_file) = 1
    /\ out_file[1].status = "live"
    /\ out_file[1].source_id = "v2"

(***************************************************************************)
(* main from its first line: schedule sheet, channel sheet, TikTok checks, *)
(* YouTube collection.  What the network returns is chosen by the          *)
(* environment at the call that asks for it.                               *)
(***************************************************************************)
MaxSheetRows == 1
MaxChannels == 2
MaxUploads == 1

TikTokLiveUrl == "https://www.tiktok.com/@creator/live"

\* events load_schedule_from_sheet can return: a watch_url, a start_et, a
\* lower-case status, no source_id
SheetEvents ==
    {Event(T0 + 60, 0, "YouTube", "https://youtu.be/x", "", "upcoming", 10),
     Event(T0, 0, "YouTube", "https://youtu.be/y", "", "live", 20),
     Event(T0 + 60, 0, "TikTok", TikTokLiveUrl, "", "upcoming", 30)}

\* rows load_channels_from_sheet can return: two YouTube channels, a TikTok
\* handle, and a TikTok row whose only identifier is a url without a host
ChannelPool ==
    {Channel("YouTube", "c1", "", "", 100),
     Channel("YouTube", "c2", "", "", 200),
     Channel("TikTok", "", "creator", "", 30),
     Channel("TikTok", "", "", "/", 40)}

\* the uploads playlist of a channel, newest first
VidSeq(cid) == IF cid = "c1" THEN <<"v1", "v2", "v3">> ELSE <<"w1", "w2", "w3">>

\* what the live search of a channel returns with maxResults = 1: nothing,
\* or one video of the channel, scanned as an upload or not
SearchResults(cid) == {<<>>, <<VidSeq(cid)[1]>>, <<VidSeq(cid)[2]>>}

\* statistics.subscriberCount of a channel
SubscriberCount(cid) == IF cid = "c1" THEN 1000 ELSE 2000

\* the video item the videos endpoint holds for each video: per channel an
\* upcoming one, a live one and an ended one; the live one of the second
\* channel carries an actualStartTime that does not parse
VideoItem(vid) ==
    CASE vid = "v1" -> PlainItem(EMPTY, EMPTY, Future, "upcoming", FALSE)
      [] vid = "v2" -> PlainItem(Fresh, EMPTY, EMPTY, "live", FALSE)
      [] vid = "w1" -> PlainItem(BAD, EMPTY, EMPTY, "live", FALSE)
      [] vid = "w2" -> PlainItem(EMPTY, EMPTY, Future, "upcoming", FALSE)
      [] OTHER -> PlainItem(Fresh, Recent, EMPTY, "none", FALSE)

\* the ids of the items in the response of the videos endpoint: every video
\* asked for, or all but the first (a video deleted since it was listed)
Returned(video_ids) ==
    IF video_ids = <<>> THEN {{}}
    ELSE {Range(video_ids), Range(Tail(video_ids))}

\* fetch_tiktok_live_status: (is_live, room_id)
TikTokStatuses == {<<FALSE, "">>, <<TRUE, "room1">>, <<TRUE, "">>}

\* lines 241-248, for the rows of ChannelPool: a handle gives the live url of
\* the handle; a url without a host gives ""
ensure_tiktok_live_url(handle, tiktok_url) ==
    IF handle # "" THEN "https://www.tiktok.com/@" \o handle \o "/live"
    ELSE IF tiktok_url = "/" THEN ""
    ELSE tiktok_url \o "/live"

\* list(dict.fromkeys(seq)) and the loop of lines 775-780
RECURSIVE DedupeFrom(_, _, _)
DedupeFrom(kept, seq, n) ==
    IF n > Len(seq) THEN kept
    ELSE IF seq[n] \in Range(kept) THEN DedupeFrom(kept, seq, n + 1)
    ELSE DedupeFrom(Append(kept, seq[n]), seq, n + 1)

Dedupe(seq) == DedupeFrom(<<>>, seq, 1)

Init ==
    /\ pc = "start"
    /\ sheet = NoSheet
    /\ fetch = NoFetch
    /\ env \in [schedule_sheet_csv : BOOLEAN, yt_api_key : BOOLEAN,
                search_live_max_results : {0, 1}]
    /\ item = NoItem
    /\ cls = NoResult
    /\ now = 0
    /\ MainIdle

\* lines 655-667
Start ==
    /\ pc = "start"
    /\ pc' = "load_channels"
    /\ IF env.schedule_sheet_csv
       THEN \/ \* load_schedule_from_sheet raises: caught, fall back
               /\ schedule_events' = <<>>
               /\ used_schedule_sheet' = FALSE
            \/ \E k \in 0..MaxSheetRows : \E r \in [1..k -> SheetEvents] :
                  /\ schedule_events' = r
                  /\ used_schedule_sheet' = (r # <<>>)
       ELSE UNCHANGED <<schedule_events, used_schedule_sheet>>
    /\ UNCHANGED <<sheet, fetch, env, item, cls, now, channels, events, tIdx, meta,
                   per_channel_candidate, all_candidate_vids, gIdx, details,
                   cIdx, vIdx, best_live, best_upcoming, recent_ended,
                   out_file, writes, exit>>

\* lines 669-686
LoadChannels ==
    /\ pc = "load_channels"
    /\ \/ \* load_channels_from_sheet raises (http_get of the channel sheet)
          /\ \E error \in HttpErrors : Abort(error)
          /\ UNCHANGED <<channels, events, now, tIdx>>
       \/ \E k \in 0..MaxChannels : \E r \in [1..k -> ChannelPool] :
             /\ channels' = r
             /\ IF r = <<>> /\ schedule_events = <<>>
                THEN /\ pc' = "returned"
                     /\ exit' = [status |-> "ok", raised_in |-> "", error |-> ""]
                     /\ UNCHANGED <<events, now, tIdx>>
                ELSE /\ events' = schedule_events
                     /\ now' = T0
                     /\ tIdx' = 1
                     /\ pc' = IF SelectSeq(r, IsTikTok) # <<>> THEN "tiktok" ELSE "youtube"
                     /\ exit' = exit
    /\ UNCHANGED <<sheet, fetch, env, item, cls, schedule_events, used_schedule_sheet, meta,
                   per_channel_candidate, all_candidate_vids, gIdx, details,
                   cIdx, vIdx, best_live, best_upcoming, recent_ended,
                   out_file, writes>>

\* the end of one iteration of `for channel in tiktok_channels`
NextTikTok ==
    IF tIdx < Len(tiktok_channels)
    THEN tIdx' = tIdx + 1 /\ pc' = "tiktok"
    ELSE tIdx' = tIdx /\ pc' = "youtube"

\* lines 691-726: one iteration of `for channel in tiktok_channels`
TikTokCheck ==
    /\ pc = "tiktok"
    /\ LET channel == tiktok_channels[tIdx]
           live_url == ensure_tiktok_live_url(channel.handle, channel.tiktok_url)
       IN  IF live_url = ""
           THEN /\ events' = events
                /\ NextTikTok
                /\ exit' = exit
           ELSE \/ \* fetch_tiktok_live_status raises: the extract_tiktok_*
                   \* helpers call .get on a "data" value that is no dict
                   /\ Abort("Exception")
                   /\ UNCHANGED <<events, tIdx>>
                \/ \E st \in TikTokStatuses :
                      /\ events' =
                            IF st[1]
                            THEN Append(events,
                                     Event(now_et_fmt(now), 0, "TikTok", live_url, st[2],
                                           "live", channel.sheet_subscribers))
                            ELSE events
                      /\ NextTikTok
                      /\ exit' = exit
    /\ UNCHANGED <<sheet, fetch, env, item, cls, now, schedule_events, used_schedule_sheet,
                   channels, meta, per_channel_candidate, all_candidate_vids,
                   gIdx, details, cIdx, vIdx, best_live, best_upcoming,
                   recent_ended, out_file, writes>>

\* faulty variant: the YouTube sync runs although the schedule sheet gave events
SkipYouTube_ignore_sheet ==
    youtube_channels = <<>> \/ ~env.yt_api_key

\* lines 729-734: the schedule sheet was used, or there is no YouTube channel,
\* or there is no API key
SkipYouTube ==
    used_schedule_sheet \/ youtube_channels = <<>> \/ ~env.yt_api_key

\* lines 729-751: the gate of the YouTube sync and fetch_channels_meta
YouTubeGate ==
    /\ pc = "youtube"
    /\ IF SkipYouTube
       THEN /\ pc' = "finalize"
            /\ UNCHANGED <<meta, gIdx, exit>>
       ELSE \/ \* fetch_channels_meta raises
               /\ \E error \in HttpErrors : Abort(error)
               /\ UNCHANGED <<meta, gIdx>>
            \/ \E D \in SUBSET Range(channel_ids) :
                  /\ meta' = [cid \in D |-> [subscribers |-> SubscriberCount(cid)]]
                  /\ gIdx' = 1
                  /\ pc' = "gather"
                  /\ exit' = exit
    /\ UNCHANGED <<sheet, fetch, env, item, cls, now, schedule_events, used_schedule_sheet,
                   channels, events, tIdx, per_channel_candidate,
                   all_candidate_vids, details, cIdx, vIdx, best_live,
                   best_upcoming, recent_ended, out_file, writes>>

\* the end of one iteration of `for cid in channel_ids` (gathering)
NextGather ==
    IF gIdx < Len(channel_ids)
    THEN gIdx' = gIdx + 1 /\ pc' = "gather"
    ELSE gIdx' = gIdx /\ pc' = "details"

\* lines 771-772
Store(cid, vids) ==
    /\ per_channel_candidate' = (cid :> vids) @@ per_channel_candidate
    /\ all_candidate_vids' = all_candidate_vids \o vids
    /\ NextGather
    /\ exit' = exit

\* lines 754-772: one iteration of the gathering loop
Gather ==
    /\ pc = "gather"
    /\ LET cid == channel_ids[gIdx]
       IN  IF cid \notin DOMAIN meta
           THEN /\ NextGather
                /\ UNCHANGED <<per_channel_candidate, all_candidate_vids, exit>>
           ELSE \/ \* fetch_uploads_video_ids raises: nothing in main catches it
                   /\ \E error \in HttpErrors : Abort(error)
                   /\ UNCHANGED <<per_channel_candidate, all_candidate_vids, gIdx>>
                \/ \E n \in 0..MaxUploads :
                      LET vids == SubSeq(VidSeq(cid), 1, n)
                      IN  IF env.search_live_max_results = 0
                          THEN Store(cid, vids)
                          ELSE \/ \* search: HTTPError, caught in
                                  \* fetch_search_live_for_channel, gives []
                                  Store(cid, Dedupe(<<>> \o vids))
                               \/ \* search: any other exception is not caught
                                  /\ Abort("Exception")
                                  /\ UNCHANGED <<per_channel_candidate,
                                                 all_candidate_vids, gIdx>>
                               \/ \E live_search_vids \in SearchResults(cid) :
                                     Store(cid, Dedupe(live_search_vids \o vids))
    /\ UNCHANGED <<sheet, fetch, env, item, cls, now, schedule_events, used_schedule_sheet,
                   channels, events, tIdx, meta, details, cIdx, vIdx,
                   best_live, best_upcoming, recent_ended, out_file, writes>>

\* lines 774-782: dedupe the candidates of all channels, fetch_videos_details
FetchDetails ==
    /\ pc = "details"
    /\ LET deduped_vids == Dedupe(all_candidate_vids)
       IN  \/ \* fetch_videos_details raises (it calls the API only for a
              \* non-empty list)
              /\ deduped_vids # <<>>
              /\ \E error \in HttpErrors : Abort(error)
              /\ UNCHANGED <<details, cIdx>>
           \/ \E D \in Returned(deduped_vids) :
                 /\ details' = [vid \in D |-> VideoItem(vid)]
                 /\ cIdx' = 1
                 /\ pc' = "classify"
                 /\ exit' = exit
    /\ UNCHANGED <<sheet, fetch, env, item, cls, now, schedule_events, used_schedule_sheet,
                   channels, events, tIdx, meta, per_channel_candidate,
                   all_candidate_vids, gIdx, vIdx, best_live, best_upcoming,
                   recent_ended, out_file, writes>>

Next ==
    \/ Start
    \/ LoadChannels
    \/ TikTokCheck
    \/ YouTubeGate
    \/ Gather
    \/ FetchDetails
    \/ BeginChannel
    \/ ScanStep
    \/ EmitChannel
    \/ Finalize

Spec == Init /\ [][Next]_vars

TikTokDerived(e) ==
    /\ e.platform = "TikTok"
    /\ e.status = "live"
    /\ e.watch_url = TikTokLiveUrl
    /\ e.start_et = now_et_fmt(now)

\* C9 as stated: once the schedule sheet gave at least one event, the run
\* loads no channel sheet, checks no TikTok channel, collects nothing from
\* YouTube, cannot be aborted by a channel-side failure, and writes exactly
\* the schedule-sheet events (merged and sorted).
C9_SheetSkipsAllChannelWork ==
    used_schedule_sheet =>
        /\ pc \notin {"tiktok", "gather", "details", "classify", "scan", "emit"}
        /\ channels = <<>>
        /\ exit.status # "exception"
        /\ pc = "done" => out_file = Sort(Merge(schedule_events))

\* C9 as amended: once the schedule sheet gave at least one event, the run
\* collects and classifies nothing from YouTube; it still loads the channel
\* sheet and checks the TikTok channels, an exception there ends the run
\* with nothing written, and what it writes otherwise is the schedule-sheet
\* events followed by the TikTok live events, merged and sorted.
C9_SheetSkipsYouTubeOnly ==
    used_schedule_sheet =>
        /\ pc \notin {"gather", "details", "classify", "scan", "emit"}
        /\ meta = <<>> /\ per_channel_candidate = <<>> /\ details = <<>>
        /\ exit.status = "exception" =>
              (exit.raised_in \in {"load_channels", "tiktok"} /\ writes = 0)
        /\ pc \in {"tiktok", "youtube", "finalize", "done"} =>
              /\ Len(events) >= Len(schedule_events)
              /\ SubSeq(events, 1, Len(schedule_events)) = schedule_events
              /\ \A i \in Len(schedule_events) + 1..Len(events) : TikTokDerived(events[i])
        /\ pc = "done" => out_file = Sort(Merge(events))

C9_Witness ==
    /\ used_schedule_sheet
    /\ pc = "done"
    /\ env.yt_api_key
    /\ youtube_channels # <<>>
    /\ Len(events) = Len(schedule_events) + 1
    /\ \E i \in 1..Len(out_file) : TikTokDerived(out_file[i])

\* C10: a failure while collecting the candidates of one YouTube channel
\* (uploads listing, live search, video details) never ends the run with an
\* exception.
C10_CollectionFailureNeverAborts ==
    ~(exit.status = "exception" /\ exit.raised_in \in {"gather", "details"})

(***************************************************************************)
(* load_channels_from_sheet (lines 148-192) on its own.  The sheet is what *)
(* csv.DictReader makes of the CSV text: the header names as they are      *)
(* spelled in the first line, and the cells of each further line.          *)
(***************************************************************************)
MaxRows == 2

\* str.strip() on the cells and the header names of the sheets below
strip(str) ==
    CASE str = " " -> ""
      [] str = " tiktok " -> "tiktok"
      [] str = " Handle " -> "Handle"
      [] OTHER -> str

\* str.lstrip("@") on a handle
lstrip_at(str) ==
    CASE str = "@creator" -> "creator"
      [] str = "@" -> ""
      [] OTHER -> str

\* str.lstrip("\ufeff"); the byte order mark is written <FEFF>
lstrip_bom(str) == IF str = "<FEFF>platform" THEN "platform" ELSE str

\* line 74
normalize_headers(headers) ==
    [i \in DOMAIN headers |-> lower(lstrip_bom(strip(headers[i])))]

\* r.get(name) or "": the cell under the header spelled exactly `name`
Cell(headers, row, name) ==
    IF \E i \in 1..Len(headers) : headers[i] = name
    THEN row[CHOOSE i \in 1..Len(headers) : headers[i] = name]
    ELSE ""

\* int(float(sub_raw)) behind replace(",", ""), 0 when it is empty or raises
sheet_subs(sub_raw) == IF sub_raw = "1,200" THEN 1200 ELSE 0

\* lines 164-175: the fields of a row and the two tests that drop it
RowFields(headers, row) ==
    [platform |-> strip(Cell(headers, row, "platform")),
     channel_id |-> strip(Cell(headers, row, "channel_id")),
     handle |-> lstrip_at(strip(Cell(headers, row, "handle"))),
     tiktok_url |-> strip(Cell(headers, row, "tiktok_url")),
     sub_raw |-> strip(Cell(headers, row, "subscribers"))]

RowDropped(f) ==
    LET platform_norm == IF f.platform # "" THEN lower(f.platform) ELSE "youtube"
    IN  \/ platform_norm = "youtube" /\ f.channel_id = ""
        \/ platform_norm = "tiktok" /\ f.handle = "" /\ f.tiktok_url = ""

RECURSIVE LoadRows(_, _, _)
LoadRows(headers, rows, n) ==
    IF n > Len(rows) THEN <<>>
    ELSE LET f == RowFields(headers, rows[n])
         IN  (IF RowDropped(f) THEN <<>>
              ELSE <<Channel(IF f.platform # "" THEN f.platform ELSE "YouTube",
                             f.channel_id, f.handle, f.tiktok_url,
                             sheet_subs(f.sub_raw))>>)
             \o LoadRows(headers, rows, n + 1)

load_channels_from_sheet(sh) == LoadRows(sh.headers, sh.rows, 1)

\* the first line of the sheet: the names the code looks up, the same names
\* capitalised, and a line with a byte order mark and padded names
HeaderLines ==
    {<<"platform", "channel_id", "handle", "tiktok_url", "subscribers">>,
     <<"Platform", "Channel_ID", "Handle", "TikTok_URL", "Subscribers">>,
     <<"<FEFF>platform", "channel_id", " Handle ", "tiktok_url", "subscribers">>}

\* the cells of a line, in the order of the header line
SheetRows ==
    {<<platform, cid, handle, url, subs>> :
        platform \in {"", "YouTube", " tiktok ", "Twitch"},
        cid \in {"", "UC1"},
        handle \in {"", "@creator"},
        url \in {" ", "https://www.tiktok.com/@creator"},
        subs \in {"", "1,200"}}

InitLoad ==
    /\ pc = "load_sheet"
    /\ \E headers \in HeaderLines : \E k \in 0..MaxRows : \E rows \in [1..k -> SheetRows] :
          sheet = [headers |-> headers, rows |-> rows]
    /\ fetch = NoFetch
    /\ env = NoEnv
    /\ item = NoItem
    /\ cls = NoResult
    /\ now = T0
    /\ MainIdle

\* channels = load_channels_from_sheet()
LoadSheet ==
    /\ pc = "load_sheet"
    /\ channels' = load_channels_from_sheet(sheet)
    /\ pc' = "loaded"
    /\ UNCHANGED <<sheet, fetch, env, item, cls, now, schedule_events,
                   used_schedule_sheet, events, tIdx, meta, per_channel_candidate,
                   all_candidate_vids, gIdx, details, cIdx, vIdx, best_live,
                   best_upcoming, recent_ended, out_file, writes, exit>>

SpecLoad == InitLoad /\ [][LoadSheet]_vars

\* a row carries the identifier of its platform: a handle or a tiktok_url on
\* a TikTok row, a channel_id on a YouTube row (an empty platform is
\* YouTube); for any other platform value, any of the three
HasIdentifier(f) ==
    LET platform_norm == IF f.platform # "" THEN lower(f.platform) ELSE "youtube"
    IN  IF platform_norm = "tiktok" THEN f.handle # "" \/ f.tiktok_url # ""
        ELSE IF platform_norm = "youtube" THEN f.channel_id # ""
        ELSE f.channel_id # "" \/ f.handle # "" \/ f.tiktok_url # ""

RECURSIVE RowsWithIdentifier(_, _, _)
RowsWithIdentifier(headers, rows, n) ==
    IF n > Len(rows) THEN <<>>
    ELSE LET f == RowFields(headers, rows[n])
         IN  (IF HasIdentifier(f) THEN <<[channel_id |-> f.channel_id, handle |-> f.handle,
                                          tiktok_url |-> f.tiktok_url]>>
              ELSE <<>>)
             \o RowsWithIdentifier(headers, rows, n + 1)

\* C13: the loader returns, in input order, exactly the rows that carry the
\* identifier of their platform: a row with no channel_id, no handle and no
\* tiktok_url is absent whatever its platform value, and the run of the
\* loader raises nothing.
C13_RowsWithoutIdentifierSkipped ==
    pc = "loaded" =>
        /\ exit.status # "exception"
        /\ [i \in 1..Len(channels) |->
                [channel_id |-> channels[i].channel_id, handle |-> channels[i].handle,
                 tiktok_url |-> channels[i].tiktok_url]]
              = RowsWithIdentifier(sheet.headers, sheet.rows, 1)

\* C16: the loader returns the same channels for the sheet as it is and for
\* the sheet whose header names are trimmed, freed of the byte order mark
\* and lower-cased.
C16_HeadersCaseInsensitive ==
    pc = "loaded" =>
        channels = load_channels_from_sheet(
                       [sheet EXCEPT !.headers = normalize_headers(sheet.headers)])

(***************************************************************************)
(* fetch_uploads_video_ids (lines 494-535) on its own.  The uploads        *)
(* playlist is a list of items, newest first; the endpoint answers a       *)
(* request with the next items of the list and, while items remain, a      *)
(* nextPageToken.  The token is the number of items listed so far, 0 is    *)
(* None.  fetch.requests is the list of the requests made.                 *)
(***************************************************************************)
MaxItems == 4
MaxPage == 2
MaxResults == 3

UPLOAD_LOOKBACK_DAYS == 30
PLAYLIST_PAGE_MAX == 50

Min(a, b) == IF a < b THEN a ELSE b

\* cutoff = now - timedelta(days=lookback_days)
Cutoff(t, lookback_days) == t - lookback_days * 24 * 60

PlaylistItem(videoId, videoPublishedAt) ==
    [videoId |-> videoId, videoPublishedAt |-> videoPublishedAt]

\* the item at position i of the playlist: published at the cutoff, one
\* minute before it, or with no date; with a video id of its own or without
ItemOf(i, kind, cutoff) ==
    CASE kind = "recent" -> PlaylistItem("u" \o ToString(i), cutoff)
      [] kind = "old" -> PlaylistItem("u" \o ToString(i), cutoff - 1)
      [] kind = "undated" -> PlaylistItem("u" \o ToString(i), EMPTY)
      [] kind = "no_id" -> PlaylistItem("", EMPTY)
      [] kind = "no_id_old" -> PlaylistItem("", cutoff - 1)

ItemKinds == {"recent", "old", "undated", "no_id", "no_id_old"}

\* faulty variant: neither the `break` at max_results nor the `return` at an
\* older item, every video id of the page is appended
ScanPage_without_break(vids, items, n, max_results, cutoff) ==
    LET kept == SelectSeq(items, LAMBDA it : it.videoId # "")
    IN  [vids |-> vids \o [i \in 1..Len(kept) |-> kept[i].videoId], returned |-> FALSE]

\* lines 518-529: `for item in items`, from the n-th item of the page on;
\* returned is TRUE when the loop ended at `return vids`
RECURSIVE ScanPage(_, _, _, _, _)
ScanPage(vids, items, n, max_results, cutoff) ==
    IF n > Len(items) THEN [vids |-> vids, returned |-> FALSE]
    ELSE LET vid == items[n].videoId
             dt == parse_iso(items[n].videoPublishedAt)
         IN  IF vid = "" THEN ScanPage(vids, items, n + 1, max_results, cutoff)
             ELSE IF dt # None /\ dt < cutoff THEN [vids |-> vids, returned |-> TRUE]
             ELSE IF Len(vids) + 1 >= max_results
             THEN [vids |-> Append(vids, vid), returned |-> FALSE]
             ELSE ScanPage(Append(vids, vid), items, n + 1, max_results, cutoff)

InitUploads ==
    /\ pc = "fetch_uploads"
    /\ sheet = NoSheet
    /\ now = T0 + UPLOAD_LOOKBACK_DAYS * 24 * 60
    /\ \E k \in 0..MaxItems : \E kinds \in [1..k -> ItemKinds] :
       \E max_results \in -1..MaxResults :
          fetch = [playlist |-> [i \in 1..k |->
                                   ItemOf(i, kinds[i], Cutoff(now, UPLOAD_LOOKBACK_DAYS))],
                   max_results |-> max_results, vids |-> <<>>, page_token |-> 0,
                   requests |-> <<>>]
    /\ env = NoEnv
    /\ item = NoItem
    /\ cls = NoResult
    /\ MainIdle

\* lines 505-533: one iteration of `while len(vids) < max_results`.  The
\* endpoint chooses the length of the page: at least one item while items
\* remain, at most MaxPage
FetchUploadsPage ==
    /\ pc = "fetch_uploads"
    /\ Len(fetch.vids) < fetch.max_results
    /\ LET listed == fetch.page_token
           per_page == Min(PLAYLIST_PAGE_MAX, fetch.max_results - Len(fetch.vids))
           remaining == Len(fetch.playlist) - listed
       IN  \E n \in (IF remaining = 0 THEN {0} ELSE 1..Min(MaxPage, remaining)) :
              LET items == SubSeq(fetch.playlist, listed + 1, listed + n)
                  nextPageToken == IF listed + n < Len(fetch.playlist)
                                   THEN listed + n ELSE 0
                  r == ScanPage(fetch.vids, items, 1, fetch.max_results,
                                Cutoff(now, UPLOAD_LOOKBACK_DAYS))
              IN  /\ fetch' = [fetch EXCEPT
                                 !.vids = r.vids,
                                 !.page_token = IF r.returned THEN @ ELSE nextPageToken,
                                 !.requests = Append(@, [pageToken |-> listed,
                                                         maxResults |-> per_page])]
                  /\ pc' = IF r.returned \/ nextPageToken = 0
                           THEN "fetched" ELSE "fetch_uploads"
    /\ UNCHANGED <<sheet, env, item, cls, now>>
    /\ UNCHANGED mainVars

\* line 505 when the test fails, line 535: return vids
FetchUploadsReturn ==
    /\ pc = "fetch_uploads"
    /\ ~(Len(fetch.vids) < fetch.max_results)
    /\ pc' = "fetched"
    /\ UNCHANGED <<sheet, fetch, env, item, cls, now>>
    /\ UNCHANGED mainVars

NextUploads == FetchUploadsPage \/ FetchUploadsReturn

SpecUploads == InitUploads /\ [][NextUploads]_vars

\* the publish time of the item is older than the cutoff
IsOlder(it) ==
    /\ parse_iso(it.videoPublishedAt) # None
    /\ it.videoPublishedAt < Cutoff(now, UPLOAD_LOOKBACK_DAYS)

\* position of the first item of S in the playlist, behind its end if none
FirstOf(S) ==
    IF S = {} THEN Len(fetch.playlist) + 1 ELSE CHOOSE i \in S : \A j \in S : i <= j

FirstOlder == FirstOf({i \in 1..Len(fetch.playlist) : IsOlder(fetch.playlist[i])})

FirstOlderWithId ==
    FirstOf({i \in 1..Len(fetch.playlist) :
                IsOlder(fetch.playlist[i]) /\ fetch.playlist[i].videoId # ""})

\* position in the playlist of a video id that was returned, 0 if it is not
\* an id of the playlist
PositionOf(vid) ==
    IF \E i \in 1..Len(fetch.playlist) : fetch.playlist[i].videoId = vid
    THEN CHOOSE i \in 1..Len(fetch.playlist) : fetch.playlist[i].videoId = vid
    ELSE 0

\* at most max_results ids (none when max_results <= 0), all of them ids of
\* the playlist in listing order and listed before position `stop`; and
\* every request was made with ids still wanted, behind the first one with
\* the token of the response before it, and with no item at or before the
\* token at or behind `stop`
UploadsBounded(stop) ==
    /\ Len(fetch.vids) <= (IF fetch.max_results > 0 THEN fetch.max_results ELSE 0)
    /\ \A a \in 1..Len(fetch.vids) :
          /\ PositionOf(fetch.vids[a]) > 0
          /\ PositionOf(fetch.vids[a]) < stop
    /\ \A a, b \in 1..Len(fetch.vids) :
          a < b => PositionOf(fetch.vids[a]) < PositionOf(fetch.vids[b])
    /\ \A k \in 1..Len(fetch.requests) :
          /\ fetch.requests[k].maxResults >= 1
          /\ k > 1 => fetch.requests[k].pageToken # 0
          /\ fetch.requests[k].pageToken < stop
    /\ (pc = "fetched" /\ fetch.max_results <= 0) => fetch.requests = <<>>

\* C18 as stated: the bound max_results, the listing order, no id at or
\* behind the first item whose publish time is older than the cutoff, and no
\* request once a bound is hit or no nextPageToken came back.
C18_UploadsBoundedByFirstOldItem == UploadsBounded(FirstOlder)

\* C18 as amended: the same with the first item that carries a video id and
\* whose publish time is older than the cutoff; an older item without a
\* video id is skipped and does not end the listing.
C18_UploadsBoundedByFirstOldVideo == UploadsBounded(FirstOlderWithId)

C18_Witness ==
    /\ pc = "fetched"
    /\ fetch.max_results = 3
    /\ Len(fetch.playlist) = 4
    /\ fetch.playlist[2].videoId = "" /\ IsOlder(fetch.playlist[2])
    /\ IsOlder(fetch.playlist[4])
    /\ fetch.vids = <<"u1", "u3">>
    /\ Len(fetch.requests) = 2

\* C11: an HTTPError (a 403 quota or key rejection) of any YouTube API call
\* of the credentialed path -- channels, playlistItems, search, videos --
\* never ends the run with that exception: the run skips the path and ends
\* normally.
C11_UpstreamRejectionTolerated ==
    ~(/\ exit.status = "exception"
      /\ exit.error = "HTTPError"
      /\ exit.raised_in \in {"youtube", "gather", "details"})

UnparseableTimestamp(it) ==
    BAD \in {it.actualStartTime, it.scheduledStartTime, it.actualEndTime}

\* C12: a candidate with a non-empty, unparseable actualStartTime,
\* scheduledStartTime or actualEndTime produces no event, and never an
\* exception that ends main while its channel's events are built.
C12_UnparseableTimestampDropped ==
    /\ ~(exit.status = "exception" /\ exit.raised_in = "emit")
    /\ \A vid \in DOMAIN details :
          UnparseableTimestamp(details[vid]) =>
              \A st \in {"live", "upcoming", "ended"} : ~HasEvent(vid, st)

C17_WrittenOnceAtTheEnd ==
    /\ writes <= 1
    /\ writes = 1 <=> pc = "done"
    /\ pc # "done" => out_file = <<"previous">>
    /\ pc = "done" => out_file = Sort(Merge(events))

C17_Witness ==
    /\ pc = "done"
    /\ writes = 1
    /\ Len(out_file) = 2
    /\ out_file[1].status = "live" /\ out_file[1].platform = "YouTube"
    /\ out_file[2].status = "upcoming"

====
